---- MODULE Spec2Model ----
(***************************************************************************)
(* Quantum Daily: the preference record, the feedback applier             *)
(* (app/ranker.py) and the request handlers that read and write the       *)
(* preference record (app/main.py, app/routers, app/workflow.py).         *)
(*                                                                         *)
(* Numbers.  The program computes with Python floats.  The model computes *)
(* with exact rationals [n, d] in lowest terms (d > 0), so "== 1.0 within *)
(* floating tolerance" is read as "= 1".                                   *)
(*                                                                         *)
(* Strings.  An aspect is a sequence of tokens, ":" being a token of its  *)
(* own: "source:A" is <<"source", ":", "A">>, "industry" is               *)
(* <<"industry">>.  A dict key (the text after the first colon) is the    *)
(* remaining sequence of tokens.                                           *)
(***************************************************************************)
EXTENDS Integers, Sequences, FiniteSets, TLC

VARIABLES
    userprefs,      \* table UserPrefs: sequence of rows, row i has id i
    feedback,       \* table Feedback: sequence of rows (append-only)
    pc,             \* per request slot: position in its handler
    body,           \* per request slot: the request body being served
    loaded,         \* per request slot: the UserPrefs object the session holds
    resp,           \* outcome of the request that finished last
    started,        \* number of requests accepted so far
    dailyissue,     \* table DailyIssue: sequence of rows, row i has id i
    article,        \* table Article: sequence of rows, row i has id i
    today,          \* the calendar date (UTC), as a day number
    work,           \* per request slot: the locals of run_daily
    outage,         \* what is out of order around the program
    prefs,          \* apply_feedback harness: the record handed in and returned
    prefs_before,   \* apply_feedback harness: the record before the last call
    fb_list,        \* apply_feedback harness: the batch of the last call
    called,         \* apply_feedback harness: a call has returned
    n_events,       \* apply_feedback harness: events consumed so far
    raw,            \* ranking passes: the fetched list
    rk_prefs,       \* ranking passes: the preference record
    clock,          \* ranking passes: the wall clock, in hours
    scored,         \* ranking passes: the scored list of the last pass
    scored_at,      \* ranking passes: the hour of the last pass
    top,            \* ranking passes: the selection of the last pass
    prev_top,       \* ranking passes: the selection of the pass before
    passes,         \* ranking passes: passes made so far
    cls_call,       \* direct calls: the last call of classify_industry_vs_tech
    score_call,     \* direct calls: the last call of composite_score
    prev_score_call,\* direct calls: the call of composite_score before it
    sum_call        \* direct calls: the last call of summarize_items

sysvars == <<userprefs, feedback, dailyissue, article, today, pc, body, loaded, work,
            resp, started, outage>>
fbvars == <<prefs, prefs_before, fb_list, called, n_events>>
rkvars == <<raw, rk_prefs, clock, scored, scored_at, top, prev_top, passes>>
dcvars == <<cls_call, score_call, prev_score_call, sum_call>>
harnessvars == <<fbvars, rkvars, dcvars>>
vars == <<sysvars, fbvars, rkvars, dcvars>>

----------------------------------------------------------------------------
(* Bounds of the model *)

MaxEvents == 2      \* feedback events handed to apply_feedback in one run of the harness
NumSlots == 2       \* request handlers that can be in flight at once
MaxRequests == 3    \* requests and scheduled jobs accepted in one run of the model
MaxDays == 2        \* calendar dates in one run of the model
MaxShort == 2       \* items of a fetched list whose items differ in every field
MaxItems == 13      \* items of a fetched list of plain items
MaxOdd == 2         \* items of such a list that differ from the others
MaxTicks == 1       \* hours the wall clock advances during the ranking passes
MaxList == 2        \* items of a list handed to summarize_items directly

----------------------------------------------------------------------------
(* Exact rational arithmetic standing for Python float arithmetic *)

Abs(x) == IF x < 0 THEN -x ELSE x

RECURSIVE Gcd(_, _)
Gcd(a, b) == IF b = 0 THEN a ELSE Gcd(b, a % b)

\* n/d in lowest terms; d > 0
Q(n, d) == LET g == Gcd(Abs(n), d) IN [n |-> n \div g, d |-> d \div g]

\* a + b over the least common denominator
Add(a, b) ==
    LET g == Gcd(a.d, b.d)
    IN  Q(a.n * (b.d \div g) + b.n * (a.d \div g), (a.d \div g) * b.d)
Sub(a, b) == Q(a.n * b.d - b.n * a.d, a.d * b.d)
Neg(a) == [n |-> -a.n, d |-> a.d]
Leq(a, b) == a.n * b.d <= b.n * a.d
Less(a, b) == a.n * b.d < b.n * a.d
\* a * b, the common factors removed before the products are formed
Mul(a, b) ==
    LET g1 == Gcd(Abs(a.n), b.d)
        g2 == Gcd(Abs(b.n), a.d)
    IN  Q((a.n \div g1) * (b.n \div g2), (a.d \div g2) * (b.d \div g1))
\* a < b by integer parts and reciprocals of the fractional parts, for
\* values whose cross products exceed the integer range
RECURSIVE LessThan(_, _)
LessThan(a, b) ==
    LET fa == a.n \div a.d
        fb == b.n \div b.d
        ra == a.n % a.d
        rb == b.n % b.d
    IN  IF fa # fb THEN fa < fb
        ELSE IF ra = 0 THEN rb > 0
        ELSE IF rb = 0 THEN FALSE
        ELSE LessThan([n |-> b.d, d |-> rb], [n |-> a.d, d |-> ra])
\* a / b for b > 0
Div(a, b) == Q(a.n * b.d, a.d * b.n)
\* Python's min(a, b) and max(a, b)
PyMin(a, b) == IF Less(b, a) THEN b ELSE a
PyMax(a, b) == IF Less(a, b) THEN b ELSE a

Zero == Q(0, 1)
One == Q(1, 1)
Half == Q(1, 2)

\* Python's None where a number, a string or an integer is expected
NoneNum == [n |-> 0, d |-> 0]
NoneStr == "<None>"
NoneInt == -1

----------------------------------------------------------------------------
(* app/ranker.py: apply_feedback *)

\* lr=0.05, the default every caller uses
DefaultLr == Q(1, 20)

PositiveSignals == {"+1", "more"}
NegativeSignals == {"-1", "less"}

\* str.startswith on token sequences
StartsWith(asp, prefix) ==
    /\ Len(asp) >= Len(prefix)
    /\ SubSeq(asp, 1, Len(prefix)) = prefix

\* asp.split(":", 1)[1]: everything after the first colon
AfterColon(asp) ==
    LET i == CHOOSE k \in 1..Len(asp) :
                 asp[k] = ":" /\ \A j \in 1..(k - 1) : asp[j] # ":"
    IN SubSeq(asp, i + 1, Len(asp))

EmptyDict == [k \in {} |-> Zero]

\* d.get(k, default)
DictGet(d, k, default) == IF k \in DOMAIN d THEN d[k] ELSE default

\* d[k] = v
DictSet(d, k, v) == [x \in (DOMAIN d) \cup {k} |-> IF x = k THEN v ELSE d[x]]

\* WeightDelta with the two signs exchanged
WeightDelta_Swapped(sig, lr) ==
    IF sig \in PositiveSignals THEN Neg(lr)
    ELSE IF sig \in NegativeSignals THEN lr
    ELSE Zero

\* (1 if sig in ("+1","more") else -1 if sig in ("-1","less") else 0) * lr
WeightDelta(sig, lr) ==
    IF sig \in PositiveSignals THEN lr
    ELSE IF sig \in NegativeSignals THEN Neg(lr)
    ELSE Zero

\* (lr if sig in ("+1","more") else -lr)
BiasDelta(sig, lr) == IF sig \in PositiveSignals THEN lr ELSE Neg(lr)

\* ClampWeight without the lower bound
ClampWeight_NoFloor(x) == PyMin(One, x)

\* min(1.0, max(0.0, x))
ClampWeight(x) == PyMin(One, PyMax(Zero, x))

\* max(-0.5, min(0.5, v))
ClampBias(v) == PyMax(Neg(Half), PyMin(Half, v))

\* IsWeightAspect as a prefix test: asp.startswith("industry") or ("tech")
IsWeightAspect_Prefix(asp) == Len(asp) >= 1 /\ asp[1] \in {"industry", "tech"}

\* if asp in ("industry","tech")
IsWeightAspect(asp) == asp \in {<<"industry">>, <<"tech">>}

\* SetIndustry taking the complement of the sum before it is clamped
SetIndustry_ComplementFirst(p, delta) ==
    LET x == Add(p.industry_weight, delta)
    IN  [p EXCEPT !.industry_weight = ClampWeight(x), !.tech_weight = Sub(One, x)]

\* prefs.industry_weight = min(1.0, max(0.0, prefs.industry_weight + delta))
\* prefs.tech_weight = 1.0 - prefs.industry_weight
SetIndustry(p, delta) ==
    LET w == ClampWeight(Add(p.industry_weight, delta))
    IN  [p EXCEPT !.industry_weight = w, !.tech_weight = Sub(One, w)]

\* SetTech without the complementary assignment
SetTech_NoComplement(p, delta) ==
    [p EXCEPT !.tech_weight = ClampWeight(Add(p.tech_weight, delta))]

\* prefs.tech_weight = min(1.0, max(0.0, prefs.tech_weight + delta))
\* prefs.industry_weight = 1.0 - prefs.tech_weight
SetTech(p, delta) ==
    LET w == ClampWeight(Add(p.tech_weight, delta))
    IN  [p EXCEPT !.tech_weight = w, !.industry_weight = Sub(One, w)]

\* BumpBias building a new dict that holds the named key only
BumpBias_Fresh(d, name, sig, lr) ==
    name :> Add(DictGet(d, name, Zero), BiasDelta(sig, lr))

\* d[name] = d.get(name, 0.0) + (lr if sig in ("+1","more") else -lr)
BumpBias(d, name, sig, lr) ==
    DictSet(d, name, Add(DictGet(d, name, Zero), BiasDelta(sig, lr)))

\* the body of the loop over fb_list, for one event
ApplyEvent(p, fb, lr) ==
    LET sig == fb.signal
        asp == fb.aspect
    IN  IF IsWeightAspect(asp)
        THEN IF asp = <<"industry">>
             THEN SetIndustry(p, WeightDelta(sig, lr))
             ELSE SetTech(p, WeightDelta(sig, lr))
        ELSE IF StartsWith(asp, <<"source", ":">>)
        THEN [p EXCEPT !.source_bias = BumpBias(@, AfterColon(asp), sig, lr)]
        ELSE IF StartsWith(asp, <<"topic", ":">>)
        THEN [p EXCEPT !.topic_bias = BumpBias(@, AfterColon(asp), sig, lr)]
        ELSE p

\* for fb in fb_list: ...
RECURSIVE ApplyEvents(_, _, _)
ApplyEvents(p, fbs, lr) ==
    IF fbs = <<>> THEN p
    ELSE ApplyEvents(ApplyEvent(p, Head(fbs), lr), Tail(fbs), lr)

\* for k,v in list(d.items()): d[k] = max(-0.5, min(0.5, v))
ClampDict(d) == [k \in DOMAIN d |-> ClampBias(d[k])]

\* the clamp pass over source_bias alone
ClampBiases_SourceOnly(p) == [p EXCEPT !.source_bias = ClampDict(@)]

\* the "light clamp of biases" after the loop
ClampBiases(p) ==
    [p EXCEPT !.source_bias = ClampDict(@), !.topic_bias = ClampDict(@)]

\* apply_feedback with the clamp pass inside the loop, after every event
RECURSIVE apply_feedback_ClampEach(_, _, _)
apply_feedback_ClampEach(p, fbs, lr) ==
    IF fbs = <<>> THEN ClampBiases(p)
    ELSE apply_feedback_ClampEach(ClampBiases(ApplyEvent(p, Head(fbs), lr)),
                                  Tail(fbs), lr)

apply_feedback(p, fbs, lr) == ClampBiases(ApplyEvents(p, fbs, lr))

----------------------------------------------------------------------------
(* app/models.py: UserPrefs; app/main.py: update_prefs normalisation *)

\* a fresh UserPrefs(): the column defaults
UserPrefs ==
    [industry_weight |-> Q(7, 10), tech_weight |-> Q(3, 10),
     email |-> "", send_hour_local |-> 8,
     source_bias |-> EmptyDict, topic_bias |-> EmptyDict]

\* total = max(1e-6, body.industry_weight + body.tech_weight)
NormTotal(iw, tw) == PyMax(Q(1, 1000000), Add(iw, tw))

\* the weights update_prefs stores when both weights are supplied
NormWeights(iw, tw) ==
    [industry_weight |-> Div(iw, NormTotal(iw, tw)),
     tech_weight |-> Div(tw, NormTotal(iw, tw))]

----------------------------------------------------------------------------
(* app/ranker.py: classify_industry_vs_tech, composite_score;             *)
(* app/workflow.py: the classify/score loop and the top-N selection.      *)
(*                                                                         *)
(* Items.  A fetched item is a record with the keys url, title, content,  *)
(* published_at and source of the dict.  kws stands for the lower-cased   *)
(* text title + " " + content: it is the set of keywords of the two lists *)
(* that occur in that text.  title = NoneStr is a title of None.          *)
(* has_published_at and has_source say whether the dict has the key.      *)
(* Time is counted in whole hours; published_at = NoneInt is None.        *)

industry_kws ==
    {"partnership", "funding", "acquisition", "deal", "deploy", "product",
     "roadmap", "market", "customer", "commercial", "hiring", "announcement",
     "launch"}

tech_kws ==
    {"qubit", "error rate", "decoherence", "benchmark", "algorithm",
     "architecture", "compiler", "gate", "circuit", "fault-tolerant", "paper",
     "arxiv"}

\* the 1e-6 of total = i_score + t_score + 1e-6
Epsilon == Q(1, 1000000)

\* item["title"] + " " + ... raises TypeError for a title of None
ClassifyRaises(item) == item.title = NoneStr

\* classify_industry_vs_tech returning the two counts, not divided by total
classify_industry_vs_tech_Counts(item) ==
    [industry |-> Q(Cardinality(item.kws \cap industry_kws), 1),
     tech |-> Q(Cardinality(item.kws \cap tech_kws), 1)]

classify_industry_vs_tech(item) ==
    LET i_score == Cardinality(item.kws \cap industry_kws)
        t_score == Cardinality(item.kws \cap tech_kws)
        total == Add(Q(i_score + t_score, 1), Epsilon)
    IN  [industry |-> Div(Q(i_score, 1), total),
         tech |-> Div(Q(t_score, 1), total)]

\* now = now or datetime.now(timezone.utc)
NowOr(now, wall) == IF now = NoneInt THEN wall ELSE now

\* AgeHours as the distance between now and published_at, whichever is later
AgeHours_Abs(item, now) ==
    IF item.published_at = NoneInt THEN 0 ELSE Abs(now - item.published_at)

\* (now - (item["published_at"] or now)).total_seconds() / 3600.0
AgeHours(item, now) ==
    IF item.published_at = NoneInt THEN 0 ELSE now - item.published_at

\* max(1.0, age)
FlooredAge(age) == IF age > 1 THEN age ELSE 1

\* 0.10 * math.log10(1 + recency_hours) for recency_hours = 1/m, m >= 1 a
\* whole number of hours; the logarithm is tabulated to two decimals
\* (m = 1: 0.0301, m = 2: 0.0176, m = 3: 0.0125, m = 8: 0.0051, m = 9: 0.0046)
RecencyBonus(m) ==
    IF m = 1 THEN Q(3, 100)
    ELSE IF m = 2 THEN Q(2, 100)
    ELSE IF m <= 8 THEN Q(1, 100)
    ELSE Zero

\* recency_hours = 1.0 / max(1.0, age)
RecencyHours(item, now) == Q(1, FlooredAge(AgeHours(item, now)))

\* item["published_at"] and item["source"] raise KeyError for a missing key
ScoreRaises(item) == ~item.has_published_at \/ ~item.has_source

composite_score(item, cls, p, now) ==
    LET recency_bonus == RecencyBonus(FlooredAge(AgeHours(item, now)))
        source_bias == DictGet(p.source_bias, item.source, Zero)
        topic_bias ==
            Add(Mul(DictGet(p.topic_bias, <<"industry">>, Zero), cls.industry),
                Mul(DictGet(p.topic_bias, <<"tech">>, Zero), cls.tech))
        base == Add(Mul(p.industry_weight, cls.industry),
                    Mul(p.tech_weight, cls.tech))
    IN  Add(Add(Add(base, source_bias), topic_bias), recency_bonus)

\* TOP_N = 12
TOP_N == 12

\* cls = {"industry": 0.0, "tech": 0.0}
ZeroCls == [industry |-> Zero, tech |-> Zero]

\* try: cls = classify_industry_vs_tech(it)  except Exception: cls = zero
ClassifyOrZero(it) ==
    IF ClassifyRaises(it) THEN ZeroCls ELSE classify_industry_vs_tech(it)

\* try: score = float(composite_score(it, cls, prefs))
\* except Exception: score = 0.0
ScoreOrZero(it, cls, p, wall) ==
    IF ScoreRaises(it) THEN Zero
    ELSE composite_score(it, cls, p, NowOr(NoneInt, wall))

\* Category with ties going to "tech"
Category_TiesTech(cls) ==
    IF LessThan(cls.tech, cls.industry) THEN "industry" ELSE "tech"

\* "industry" if cls.get("industry", 0) >= cls.get("tech", 0) else "tech"
Category(cls) ==
    IF ~LessThan(cls.industry, cls.tech) THEN "industry" ELSE "tech"

\* the body of the loop over raw: it["category"] = ...; it["score"] = score
ScoreItem(it, p, wall) ==
    LET cls == ClassifyOrZero(it)
    IN  [category |-> Category(cls), score |-> ScoreOrZero(it, cls, p, wall)]
        @@ it

\* ScoreLoop without the two try blocks: the first exception ends the loop
RECURSIVE ScoreLoop_NoTry(_, _, _)
ScoreLoop_NoTry(items, p, wall) ==
    IF items = <<>> \/ ClassifyRaises(Head(items)) \/ ScoreRaises(Head(items))
    THEN <<>>
    ELSE <<ScoreItem(Head(items), p, wall)>> \o ScoreLoop_NoTry(Tail(items), p, wall)

\* for it in raw: ...; scored.append(it)
RECURSIVE ScoreLoop(_, _, _)
ScoreLoop(items, p, wall) ==
    IF items = <<>> THEN <<>>
    ELSE <<ScoreItem(Head(items), p, wall)>> \o ScoreLoop(Tail(items), p, wall)

\* InsertDesc putting x before the elements of equal score
RECURSIVE InsertDesc_BeforeEqual(_, _)
InsertDesc_BeforeEqual(sorted, x) ==
    IF sorted = <<>> THEN <<x>>
    ELSE IF ~LessThan(x.score, Head(sorted).score) THEN <<x>> \o sorted
    ELSE <<Head(sorted)>> \o InsertDesc_BeforeEqual(Tail(sorted), x)

\* list.sort's insertion of x into a list sorted by descending score: x goes
\* after every element whose score is not below its own
RECURSIVE InsertDesc(_, _)
InsertDesc(sorted, x) ==
    IF sorted = <<>> THEN <<x>>
    ELSE IF LessThan(Head(sorted).score, x.score) THEN <<x>> \o sorted
    ELSE <<Head(sorted)>> \o InsertDesc(Tail(sorted), x)

\* sorted(scored, key=lambda x: x.get("score", 0.0), reverse=True)
RECURSIVE SortedDesc(_)
SortedDesc(xs) ==
    IF xs = <<>> THEN <<>>
    ELSE InsertDesc(SortedDesc(SubSeq(xs, 1, Len(xs) - 1)),
                    xs[Len(xs)])

\* SelectTop cutting one item early
SelectTop_CutEarly(xs) ==
    SubSeq(SortedDesc(xs), 1,
           IF Len(xs) < TOP_N - 1 THEN Len(xs) ELSE TOP_N - 1)

\* top = sorted(...)[:TOP_N]
SelectTop(xs) ==
    SubSeq(SortedDesc(xs), 1,
           IF Len(xs) < TOP_N THEN Len(xs) ELSE TOP_N)

----------------------------------------------------------------------------
(* The store (app/store.py, app/models.py) as the handlers use it.        *)
(* Every statement a session sends and every commit is one atomic step;   *)
(* nothing in the code serialises the statements of different requests.   *)

Slots == 1..NumSlots

\* s.exec(select(UserPrefs)).first(): the row of lowest id, or nothing (id 0)
NoObject == [id |-> 0, row |-> UserPrefs]
SelectFirst(table) ==
    IF table = <<>> THEN NoObject ELSE [id |-> 1, row |-> table[1]]

\* s.add(obj); s.commit() for an object loaded as `old` and now holding
\* `new`, where `cur` is the row in the table: the UPDATE carries the
\* columns whose attribute was assigned a different value.  source_bias and
\* topic_bias are plain Column(JSON): apply_feedback changes the dicts in
\* place, which assigns no attribute, so the UPDATE does not carry them.
FlushRow(cur, old, new) ==
    [industry_weight |-> IF new.industry_weight # old.industry_weight
                         THEN new.industry_weight ELSE cur.industry_weight,
     tech_weight |-> IF new.tech_weight # old.tech_weight
                     THEN new.tech_weight ELSE cur.tech_weight,
     email |-> IF new.email # old.email THEN new.email ELSE cur.email,
     send_hour_local |-> IF new.send_hour_local # old.send_hour_local
                         THEN new.send_hour_local ELSE cur.send_hour_local,
     source_bias |-> cur.source_bias,
     topic_bias |-> cur.topic_bias]

\* the table after s.add(obj); s.commit(): INSERT for a new object,
\* UPDATE ... WHERE id = obj.id for a loaded one
CommitPrefs(table, obj, new) ==
    IF obj.id = 0 THEN Append(table, new)
    ELSE [table EXCEPT ![obj.id] = FlushRow(@, obj.row, new)]

----------------------------------------------------------------------------
(* Request bodies *)

Signals == {"+1", "-1", "more", "less", "meh"}

FeedbackBodies ==
    { [article_id |-> 1, signal |-> "+1", aspect |-> <<"industry">>],
      [article_id |-> 1, signal |-> "less", aspect |-> <<"tech">>],
      [article_id |-> 1, signal |-> "more", aspect |-> <<"source", ":", "A">>],
      [article_id |-> 1, signal |-> "meh", aspect |-> <<"topic", ":", "tech">>] }

\* industry_weight and tech_weight of the POST /prefs bodies
WeightInputs ==
    { <<Q(1, 2), Q(1, 1)>>, <<Q(0, 1), Q(0, 1)>>, <<Q(2, 1), Q(-1, 1)>> }

PrefsBodies ==
    { [industry_weight |-> w[1], tech_weight |-> w[2],
       email |-> NoneStr, send_hour_local |-> NoneInt] : w \in WeightInputs }
    \cup
    { [industry_weight |-> Q(1, 1), tech_weight |-> NoneNum,
       email |-> "a@x", send_hour_local |-> 9] }

NoBody == [article_id |-> 0, signal |-> "", aspect |-> <<>>]
\* no issue_json
NoIssue == [date |-> 0, items |-> <<>>]
\* the outcome of a request: ranked holds the urls run_daily selected,
\* failed the stages of run_daily that logged a handled failure, raised
\* whether run_daily raised
NoResp ==
    [handler |-> "", status |-> 0, absent |-> FALSE, issue |-> NoIssue,
     fetch |-> "", ranked |-> <<>>, failed |-> {}, raised |-> FALSE]

----------------------------------------------------------------------------
(* Fetched items *)

KeyA == <<"A">>
KeyB == <<"B">>
KeyTech == <<"tech">>

\* an item without its url
Shape(title, kws, has_pub, pub, has_src, src) ==
    [title |-> title, content |-> "c", kws |-> kws,
     has_published_at |-> has_pub, published_at |-> pub,
     has_source |-> has_src, source |-> src]

\* the hour of the first ranking pass
FirstHour == 10

\* one industry keyword; no published_at
IndustryItem == Shape("t", {"funding"}, TRUE, NoneInt, TRUE, KeyA)
\* no keyword at all; no published_at
PlainItem == Shape("t", {}, TRUE, NoneInt, TRUE, KeyA)
\* two tech keywords, published two hours before the first pass
DatedItem == Shape("t", {"qubit", "paper"}, TRUE, FirstHour - 2, TRUE, KeyB)

\* the url of an item is its position in the fetched list
WithUrls(shapes) == [k \in DOMAIN shapes |-> [url |-> k] @@ shapes[k]]

\* a NewsAPI article with "title": null and "description": null
UntitledItem ==
    [Shape(NoneStr, {}, TRUE, NoneInt, TRUE, KeyB) EXCEPT !.content = ""]

\* what fetch_all() does: it raises, or returns a list; a provider that is
\* out of order delivers an article without title and description
FetchOutcomes(out) ==
    { [raises |-> TRUE, items |-> <<>>],
      [raises |-> FALSE, items |-> <<>>],
      [raises |-> FALSE, items |-> WithUrls(<<PlainItem, IndustryItem>>)],
      [raises |-> FALSE, items |-> WithUrls(<<DatedItem>>)] }
    \cup IF "feed" \in out
         THEN { [raises |-> FALSE, items |-> WithUrls(<<UntitledItem, IndustryItem>>)] }
         ELSE {}

----------------------------------------------------------------------------
(* app/main.py, app/routers/feedback.py: post_feedback *)

\* s.add(Feedback(...)); s.commit()
post_feedback_add(r) ==
    /\ pc[r] = "idle"
    /\ started < MaxRequests
    /\ started' = started + 1
    /\ \E b \in FeedbackBodies :
          /\ feedback' = Append(feedback, b)
          /\ body' = [body EXCEPT ![r] = b]
    /\ pc' = [pc EXCEPT ![r] = "fb_select"]
    /\ UNCHANGED <<userprefs, dailyissue, article, today, loaded, work, resp>>
    /\ UNCHANGED outage
    /\ UNCHANGED harnessvars

\* prefs = s.exec(select(UserPrefs)).first()
post_feedback_select(r) ==
    /\ pc[r] = "fb_select"
    /\ loaded' = [loaded EXCEPT ![r] = SelectFirst(userprefs)]
    /\ pc' = [pc EXCEPT ![r] = "fb_apply"]
    /\ UNCHANGED <<userprefs, feedback, dailyissue, article, today, body, work, resp,
                   started>>
    /\ UNCHANGED outage
    /\ UNCHANGED harnessvars

\* post_feedback_apply scoring the items of the stored issues again with
\* the preference record it has just changed
post_feedback_apply_Rescore(r) ==
    /\ pc[r] = "fb_apply"
    /\ IF loaded[r].id = 0
       THEN /\ resp' = [NoResp EXCEPT !.handler = "post_feedback", !.status = 500,
                                      !.absent = TRUE]
            /\ UNCHANGED <<userprefs, dailyissue>>
       ELSE LET p == apply_feedback(loaded[r].row, <<body[r]>>, DefaultLr)
            IN  /\ userprefs' = CommitPrefs(userprefs, loaded[r], p)
                /\ dailyissue' =
                       [i \in DOMAIN dailyissue |->
                           [dailyissue[i] EXCEPT !.items_json.items =
                               SelectTop(ScoreLoop(@, p, FirstHour))]]
                /\ resp' = [NoResp EXCEPT !.handler = "post_feedback",
                                          !.status = 200]
    /\ pc' = [pc EXCEPT ![r] = "idle"]
    /\ body' = [body EXCEPT ![r] = NoBody]
    /\ loaded' = [loaded EXCEPT ![r] = NoObject]
    /\ UNCHANGED <<feedback, article, today, work, started>>
    /\ UNCHANGED outage
    /\ UNCHANGED harnessvars

\* prefs = apply_feedback(prefs, [body]); s.add(prefs); s.commit()
\* With prefs = None apply_feedback raises AttributeError on every path
\* (prefs.industry_weight, prefs.source_bias): the request ends in a 500.
post_feedback_apply(r) ==
    /\ pc[r] = "fb_apply"
    /\ IF loaded[r].id = 0
       THEN /\ resp' =
                   [NoResp EXCEPT !.handler = "post_feedback", !.status = 500,
                                   !.absent = TRUE]
            /\ UNCHANGED userprefs
       ELSE /\ userprefs' = CommitPrefs(userprefs, loaded[r],
                   apply_feedback(loaded[r].row, <<body[r]>>, DefaultLr))
            /\ resp' =
                   [NoResp EXCEPT !.handler = "post_feedback", !.status = 200]
    /\ pc' = [pc EXCEPT ![r] = "idle"]
    /\ body' = [body EXCEPT ![r] = NoBody]
    /\ loaded' = [loaded EXCEPT ![r] = NoObject]
    /\ UNCHANGED <<feedback, dailyissue, article, today, work, started>>
    /\ UNCHANGED outage
    /\ UNCHANGED harnessvars

----------------------------------------------------------------------------
(* app/main.py, app/routers/prefs.py: update_prefs *)

\* prefs = s.exec(select(UserPrefs)).first() or UserPrefs()
update_prefs_select(r) ==
    /\ pc[r] = "idle"
    /\ started < MaxRequests
    /\ started' = started + 1
    /\ \E b \in PrefsBodies : body' = [body EXCEPT ![r] = b]
    /\ loaded' = [loaded EXCEPT ![r] = SelectFirst(userprefs)]
    /\ pc' = [pc EXCEPT ![r] = "up_commit"]
    /\ UNCHANGED <<userprefs, feedback, dailyissue, article, today, work, resp>>
    /\ UNCHANGED outage
    /\ UNCHANGED harnessvars

\* the assignments update_prefs makes to the object before it commits
EditPrefs(p, b) ==
    LET both == b.industry_weight # NoneNum /\ b.tech_weight # NoneNum
        w == NormWeights(b.industry_weight, b.tech_weight)
    IN  [p EXCEPT
            !.industry_weight = IF both THEN w.industry_weight ELSE @,
            !.tech_weight = IF both THEN w.tech_weight ELSE @,
            !.email = IF b.email # NoneStr THEN b.email ELSE @,
            !.send_hour_local =
                IF b.send_hour_local # NoneInt THEN b.send_hour_local ELSE @]

\* the edits, then s.add(prefs); s.commit()
update_prefs_commit(r) ==
    /\ pc[r] = "up_commit"
    /\ userprefs' = CommitPrefs(userprefs, loaded[r], EditPrefs(loaded[r].row, body[r]))
    /\ resp' =
           [NoResp EXCEPT !.handler = "update_prefs", !.status = 200,
                         !.absent = loaded[r].id = 0]
    /\ pc' = [pc EXCEPT ![r] = "idle"]
    /\ body' = [body EXCEPT ![r] = NoBody]
    /\ loaded' = [loaded EXCEPT ![r] = NoObject]
    /\ UNCHANGED <<feedback, dailyissue, article, today, work, started>>
    /\ UNCHANGED outage
    /\ UNCHANGED harnessvars

----------------------------------------------------------------------------
(* app/summarize.py: summarize_items.  What the outside does for one item *)
(* is a record: html says what fetching and extracting the page of the    *)
(* url gives ("failed": nothing, "body": a text, "titled": a text and a   *)
(* title), llm says what the chat completion gives ("ok": a JSON with a   *)
(* summary, "empty": a JSON with an empty plain_summary, "raises": an     *)
(* exception).  Texts are not cut to 280 characters.                       *)

HtmlOutcomes == {"failed", "body", "titled"}
LlmOutcomes == {"ok", "empty", "raises"}

\* d[k] = v on an item
SetField(it, k, v) == [x \in (DOMAIN it) \cup {k} |-> IF x = k THEN v ELSE it[x]]
\* it.get(k) or ""
GetOrEmpty(it, k) ==
    IF k \in DOMAIN it /\ it[k] # NoneStr THEN it[k] ELSE ""

\* _ensure_content(it): an item without content gets the text of its page,
\* and the title of the page if it has no title
ensure_content(it, html) ==
    IF GetOrEmpty(it, "content") # "" \/ html = "failed" THEN it
    ELSE [it EXCEPT !.content = "body",
                    !.title = IF html = "titled" /\ GetOrEmpty(it, "title") = ""
                              THEN "guess" ELSE @]

\* _summarize_one leaving the item alone when the completion raises
summarize_one_NoFallback(it, llm) ==
    IF GetOrEmpty(it, "content") = "" \/ llm = "raises" THEN it
    ELSE LET plain == IF llm = "ok" THEN "plain" ELSE ""
         IN  SetField(SetField(SetField(it, "plain_summary", plain),
                               "tldr_bullets", <<>>),
                      "summary",
                      IF plain # "" THEN plain ELSE GetOrEmpty(it, "summary"))

\* _summarize_one(client, it): nothing for an item without content; the
\* summary of the completion; the content as summary when it raises
summarize_one(it, llm) ==
    IF GetOrEmpty(it, "content") = "" THEN it
    ELSE IF llm = "raises" THEN SetField(it, "summary", it.content)
    ELSE LET plain == IF llm = "ok" THEN "plain" ELSE ""
         IN  SetField(SetField(SetField(it, "plain_summary", plain),
                               "tldr_bullets", <<>>),
                      "summary",
                      IF plain # "" THEN plain ELSE GetOrEmpty(it, "summary"))

\* text = it.get("content") or it.get("title", ""); text[:280] raises
\* TypeError for a title of None
FallbackRaises(it) == GetOrEmpty(it, "content") = "" /\ it.title = NoneStr

\* the body of the loop without a client
summarize_fallback(it) ==
    LET text == IF GetOrEmpty(it, "content") # "" THEN it.content ELSE it.title
    IN  SetField(SetField(SetField(it, "plain_summary", text),
                          "tldr_bullets", <<>>),
                 "summary", text)

\* summarize_items(items): the list is changed in place, so an exception
\* leaves the items before the failing one summarized.  raised says whether
\* the call raised, items is the list after it.
RECURSIVE summarize_items(_, _, _)
summarize_items(items, client, env) ==
    IF items = <<>> THEN [raised |-> FALSE, items |-> <<>>]
    ELSE LET it == ensure_content(Head(items), Head(env).html)
         IN  IF ~client /\ FallbackRaises(it)
             THEN [raised |-> TRUE, items |-> <<it>> \o Tail(items)]
             ELSE LET rest == summarize_items(Tail(items), client, Tail(env))
                      done == IF client THEN summarize_one(it, Head(env).llm)
                              ELSE summarize_fallback(it)
                  IN  [raised |-> rest.raised, items |-> <<done>> \o rest.items]

----------------------------------------------------------------------------
(* app/workflow.py: run_daily; app/main.py, app/routers/summary.py:       *)
(* get_today and run_once.  run_daily is entered from POST /run-once and  *)
(* the scheduled job (a new request) and from get_today (the same         *)
(* request goes on).  The PDF stage writes a file and no table.           *)

NoIssueRow == [date |-> 0, items_json |-> NoIssue]
NoWork ==
    [via |-> "", date |-> 0, top |-> <<>>, fetch |-> "", absent |-> FALSE,
     ranked |-> <<>>, failed |-> {}]

\* s.exec(select(DailyIssue).where(DailyIssue.date == today)).first()
SelectIssue(table, day) ==
    LET hits == { i \in DOMAIN table : table[i].date = day }
    IN  IF hits = {} THEN NoIssueRow
        ELSE table[CHOOSE i \in hits : \A j \in hits : i <= j]

\* json.dumps of the issue, for the JSON column and for JSONResponse: a
\* datetime in published_at is not serializable (TypeError)
Serializable(issue) ==
    \A k \in DOMAIN issue.items :
        ~issue.items[k].has_published_at \/ issue.items[k].published_at = NoneInt

\* {k: v for k, v in it.items() if k != "content"}
WithoutContent(it) == [k \in (DOMAIN it) \ {"content"} |-> it[k]]

\* issue_json = {"date": date, "items": issue_items}
IssueJson(day, items) ==
    [date |-> day, items |-> [k \in DOMAIN items |-> WithoutContent(items[k])]]

\* Article(url=..., title=..., content=..., published_at=..., source=...,
\*         topics=[it.get("category", "")])
ArticleRow(it) ==
    [url |-> it.url, title |-> it.title, content |-> it.content,
     published_at |-> it.published_at, source |-> it.source,
     topics |-> <<it.category>>]

\* GET /summary/today: the stored issue of today, or run_daily when there
\* is none or regen is set (main.py's route has no regen: regen = FALSE).
\* With the database out of order the select raises and the route answers
\* 500.
get_today_select(r) ==
    /\ pc[r] = "idle"
    /\ started < MaxRequests
    /\ started' = started + 1
    /\ \E regen \in BOOLEAN :
          LET issue == SelectIssue(dailyissue, today)
          IN  IF "db" \in outage
              THEN /\ resp' = [NoResp EXCEPT !.handler = "get_today", !.status = 500]
                   /\ UNCHANGED <<pc, work>>
              ELSE IF regen \/ issue = NoIssueRow
              THEN /\ pc' = [pc EXCEPT ![r] = "rd_select"]
                   /\ work' = [work EXCEPT ![r] = [NoWork EXCEPT !.via = "get_today"]]
                   /\ UNCHANGED resp
              ELSE /\ resp' = [NoResp EXCEPT !.handler = "get_today",
                                             !.status = 200,
                                             !.issue = issue.items_json]
                   /\ UNCHANGED <<pc, work>>
    /\ UNCHANGED <<userprefs, feedback, dailyissue, article, today, body, loaded>>
    /\ UNCHANGED outage
    /\ UNCHANGED harnessvars

\* date = datetime.utcnow().strftime("%Y-%m-%d")
\* prefs = s.exec(select(UserPrefs)).first()
\* With the database out of order the select raises; no inner try covers
\* it, the outer except logs RUN_DAILY_FATAL and raises again, and the
\* route answers 500.
run_daily_select(r) ==
    /\ \/ /\ pc[r] = "idle"
          /\ started < MaxRequests
          /\ started' = started + 1
       \/ /\ pc[r] = "rd_select"
          /\ UNCHANGED started
    /\ LET via == IF pc[r] = "idle" THEN "run_daily" ELSE "get_today"
       IN  IF "db" \in outage
           THEN /\ resp' = [NoResp EXCEPT !.handler = via, !.status = 500,
                                          !.raised = TRUE]
                /\ pc' = [pc EXCEPT ![r] = "idle"]
                /\ work' = [work EXCEPT ![r] = NoWork]
                /\ UNCHANGED loaded
           ELSE /\ work' = [work EXCEPT ![r] =
                               [NoWork EXCEPT !.via = via, !.date = today]]
                /\ loaded' = [loaded EXCEPT ![r] = SelectFirst(userprefs)]
                /\ pc' = [pc EXCEPT ![r] = "rd_create"]
                /\ UNCHANGED resp
    /\ UNCHANGED <<userprefs, feedback, dailyissue, article, today, body>>
    /\ UNCHANGED outage
    /\ UNCHANGED harnessvars

\* the urls of the items of top as Select Top N leaves it
RECURSIVE UrlList(_)
UrlList(items) ==
    IF items = <<>> THEN <<>> ELSE <<Head(items).url>> \o UrlList(Tail(items))

\* if not prefs: prefs = UserPrefs(email="", send_hour_local=8); add; commit
\* and then the stages Fetch, Classify & Score, Select Top N, Summarize,
\* which read and write no table.  The scoring loop runs at hour FirstHour
\* here; what the hour changes is the matter of the ranking passes below.
\* No OpenAI client is configured here; what a client changes is the matter
\* of the direct calls of summarize_items below.  The page of an item
\* without content is fetched unless the network is out of order.  try: top
\* = summarize_items(top) except Exception: the run goes on with top as it
\* is.  With the database out of order the commit of the default record
\* raises, and nothing but the outer except covers it.
run_daily_create(r) ==
    /\ pc[r] = "rd_create"
    /\ ~(loaded[r].id = 0 /\ "db" \in outage)
    /\ userprefs' = IF loaded[r].id = 0
                    THEN CommitPrefs(userprefs, loaded[r],
                             [UserPrefs EXCEPT !.email = "", !.send_hour_local = 8])
                    ELSE userprefs
    /\ \E f \in FetchOutcomes(outage) :
          LET html == IF "net" \in outage THEN "failed" ELSE "body"
              fetched == IF f.raises THEN <<>> ELSE f.items
              ranked == SelectTop(ScoreLoop(fetched, loaded[r].row, FirstHour))
              done == summarize_items(ranked, FALSE,
                          [k \in DOMAIN ranked |-> [html |-> html, llm |-> "ok"]])
          IN  /\ work' = [work EXCEPT
                     ![r].absent = loaded[r].id = 0,
                     ![r].top = done.items,
                     ![r].ranked = UrlList(ranked),
                     ![r].failed = IF done.raised THEN {"summary"} ELSE {},
                     ![r].fetch = IF f.raises THEN "raised"
                                  ELSE IF f.items = <<>> THEN "empty" ELSE "items"]
              /\ pc' = [pc EXCEPT ![r] =
                           IF ranked = <<>> THEN "rd_issue" ELSE "rd_articles"]
    /\ UNCHANGED <<feedback, dailyissue, article, today, body, loaded, resp, started>>
    /\ UNCHANGED outage
    /\ UNCHANGED harnessvars

\* s.commit() of the default record raising: RUN_DAILY_FATAL, raise
run_daily_fatal(r) ==
    /\ pc[r] = "rd_create"
    /\ loaded[r].id = 0 /\ "db" \in outage
    /\ resp' = [NoResp EXCEPT !.handler = work[r].via, !.status = 500,
                              !.raised = TRUE]
    /\ pc' = [pc EXCEPT ![r] = "idle"]
    /\ work' = [work EXCEPT ![r] = NoWork]
    /\ loaded' = [loaded EXCEPT ![r] = NoObject]
    /\ UNCHANGED <<userprefs, feedback, dailyissue, article, today, body, started>>
    /\ UNCHANGED outage
    /\ UNCHANGED harnessvars

\* Article.title is declared `title: str`, a NOT NULL column: the commit of
\* an article with a title of None raises IntegrityError
ArticleFails(it) == it.title = NoneStr

\* PersistAll taking an item whose article cannot be stored out of top
RECURSIVE PersistAll_DropFailed(_, _)
PersistAll_DropFailed(table, items) ==
    IF items = <<>> THEN [table |-> table, items |-> <<>>, failed |-> FALSE]
    ELSE IF ArticleFails(Head(items))
    THEN [PersistAll_DropFailed(table, Tail(items)) EXCEPT !.failed = TRUE]
    ELSE LET rest == PersistAll_DropFailed(Append(table, ArticleRow(Head(items))),
                                           Tail(items))
         IN  [table |-> rest.table,
              items |-> <<SetField(Head(items), "id", Len(table) + 1)>> \o rest.items,
              failed |-> rest.failed]

\* the loop over top: each article is added and committed in its own try;
\* a stored article gives its row id to the item, a failed commit is
\* rolled back and logged and the item stays as it is
RECURSIVE PersistAll(_, _)
PersistAll(table, items) ==
    IF items = <<>> THEN [table |-> table, items |-> <<>>, failed |-> FALSE]
    ELSE IF ArticleFails(Head(items))
    THEN LET rest == PersistAll(table, Tail(items))
         IN  [table |-> rest.table, items |-> <<Head(items)>> \o rest.items,
              failed |-> TRUE]
    ELSE LET rest == PersistAll(Append(table, ArticleRow(Head(items))), Tail(items))
         IN  [table |-> rest.table,
              items |-> <<SetField(Head(items), "id", Len(table) + 1)>> \o rest.items,
              failed |-> rest.failed]

\* the loop over top: a = Article(...); s.add(a); s.commit(); s.refresh(a);
\* it["id"] = a.id.  The commits of one run are taken as one step: what
\* other requests can see in between is the Article table only.  With the
\* database out of order every commit fails.
run_daily_persist_articles(r) ==
    /\ pc[r] = "rd_articles"
    /\ LET done == IF "db" \in outage
                   THEN [table |-> article, items |-> work[r].top, failed |-> TRUE]
                   ELSE PersistAll(article, work[r].top)
       IN  /\ article' = done.table
           /\ work' = [work EXCEPT
                  ![r].top = done.items,
                  ![r].failed = IF done.failed THEN @ \cup {"article"} ELSE @]
    /\ pc' = [pc EXCEPT ![r] = "rd_issue"]
    /\ UNCHANGED <<userprefs, feedback, dailyissue, today, body, loaded, resp,
                   started>>
    /\ UNCHANGED outage
    /\ UNCHANGED harnessvars

\* PersistIssue storing nothing for an issue without items
PersistIssue_SkipEmpty(table, day, issue_json) ==
    IF Serializable(issue_json) /\ issue_json.items # <<>>
    THEN Append(table, [date |-> day, items_json |-> issue_json])
    ELSE table

\* try: s.add(DailyIssue(date=date, items_json=issue_json)); s.commit()
\* except Exception: logged
PersistIssue(table, day, issue_json) ==
    IF Serializable(issue_json)
    THEN Append(table, [date |-> day, items_json |-> issue_json])
    ELSE table

\* the stage Persist Issue (the commit fails as well with the database out
\* of order), then the PDF stage (try: mkdir, render_issue_pdf and
\* write_bytes, which raises with the disk out of order; except Exception:
\* logged), and return issue_json; the routes answer
\* JSONResponse(issue_json)
run_daily_persist_issue(r) ==
    /\ pc[r] = "rd_issue"
    /\ LET issue_json == IssueJson(work[r].date, work[r].top)
           pdf_saved == "disk" \notin outage
           stored == "db" \notin outage /\ Serializable(issue_json)
       IN  /\ dailyissue' = IF "db" \in outage THEN dailyissue
                            ELSE PersistIssue(dailyissue, work[r].date, issue_json)
           /\ resp' = [handler |-> work[r].via,
                       status |-> IF Serializable(issue_json) THEN 200 ELSE 500,
                       absent |-> work[r].absent, issue |-> issue_json,
                       fetch |-> work[r].fetch, ranked |-> work[r].ranked,
                       failed |-> work[r].failed
                           \cup (IF stored THEN {} ELSE {"issue"})
                           \cup (IF pdf_saved THEN {} ELSE {"pdf"}),
                       raised |-> FALSE]
    /\ pc' = [pc EXCEPT ![r] = "idle"]
    /\ work' = [work EXCEPT ![r] = NoWork]
    /\ loaded' = [loaded EXCEPT ![r] = NoObject]
    /\ UNCHANGED <<userprefs, feedback, article, today, body, started>>
    /\ UNCHANGED outage
    /\ UNCHANGED harnessvars

\* the calendar date changes
midnight ==
    /\ today < MaxDays
    /\ today' = today + 1
    /\ UNCHANGED <<userprefs, feedback, dailyissue, article, pc, body, loaded, work,
                   resp, started>>
    /\ UNCHANGED outage
    /\ UNCHANGED harnessvars

----------------------------------------------------------------------------
(* The application: init_db() has created empty tables *)

InitStore ==
    /\ userprefs = <<>>
    /\ feedback = <<>>
    /\ dailyissue = <<>>
    /\ article = <<>>
    /\ today = 1
    /\ work = [r \in Slots |-> NoWork]
    /\ pc = [r \in Slots |-> "idle"]
    /\ body = [r \in Slots |-> NoBody]
    /\ loaded = [r \in Slots |-> NoObject]
    /\ resp = NoResp
    /\ started = 0
    /\ outage = {}

InitHarness ==
    /\ prefs = UserPrefs
    /\ prefs_before = UserPrefs
    /\ fb_list = <<>>
    /\ called = FALSE
    /\ n_events = 0

\* no ranking pass in progress
InitNoPass ==
    /\ raw = <<>>
    /\ rk_prefs = UserPrefs
    /\ clock = 0
    /\ scored = <<>>
    /\ scored_at = 0
    /\ top = <<>>
    /\ prev_top = <<>>
    /\ passes = 0

\* no direct call made
NoClsCall == [called |-> FALSE]
NoScoreCall == [called |-> FALSE]
NoSumCall == [called |-> FALSE]
InitNoCall ==
    /\ cls_call = NoClsCall
    /\ score_call = NoScoreCall
    /\ prev_score_call = NoScoreCall
    /\ sum_call = NoSumCall

Init == InitStore /\ InitHarness /\ InitNoPass /\ InitNoCall

Next ==
    \/ midnight
    \/ \E r \in Slots :
           \/ post_feedback_add(r)
           \/ post_feedback_select(r)
           \/ post_feedback_apply(r)
           \/ update_prefs_select(r)
           \/ update_prefs_commit(r)
           \/ get_today_select(r)
           \/ run_daily_select(r)
           \/ run_daily_create(r)
           \/ run_daily_persist_articles(r)
           \/ run_daily_persist_issue(r)

Spec == Init /\ [][Next]_vars

----------------------------------------------------------------------------
(* run_daily with its surroundings out of order: the database, the disk   *)
(* the PDF is written to, the network the pages are fetched over, a feed  *)
(* provider.  The requests are POST /run-once, one at a time.              *)

Outages == {"db", "disk", "net", "feed"}

\* something goes out of order
breaks == \E x \in Outages \ outage :
    /\ outage' = outage \cup {x}
    /\ UNCHANGED <<userprefs, feedback, dailyissue, article, today, pc, body, loaded,
                   work, resp, started>>
    /\ UNCHANGED harnessvars

\* something is put in order again, between two requests
mended == \E x \in outage :
    /\ \A r \in Slots : pc[r] = "idle"
    /\ outage' = outage \ {x}
    /\ UNCHANGED <<userprefs, feedback, dailyissue, article, today, pc, body, loaded,
                   work, resp, started>>
    /\ UNCHANGED harnessvars

NextOutage ==
    \/ breaks
    \/ mended
    \/ run_daily_select(1)
    \/ run_daily_create(1)
    \/ run_daily_fatal(1)
    \/ run_daily_persist_articles(1)
    \/ run_daily_persist_issue(1)

SpecOutage == Init /\ [][NextOutage]_vars

----------------------------------------------------------------------------
(* apply_feedback as a function, on one record outside the store: the     *)
(* record starts fresh with some bias maps, update_prefs' assignments set *)
(* its weights, then batches of events are applied to it, the record one  *)
(* call returns being handed to the next.                                  *)

Ev(sig, asp) == [article_id |-> 1, signal |-> sig, aspect |-> asp]

HarnessEvents ==
    { Ev(sig, <<"industry">>) : sig \in Signals }
    \cup { Ev(sig, <<"tech">>) : sig \in {"+1", "less"} }
    \cup { Ev(sig, <<"source", ":", "A">>) : sig \in Signals }
    \cup { Ev(sig, <<"topic", ":", "tech">>) : sig \in {"-1", "meh"} }
    \cup { Ev("+1", <<"source", ":", "A", ":", "B">>),
           Ev("+1", <<"sources">>),
           Ev("-1", <<"industry", ":", "x">>) }

\* POST /prefs bodies that set both weights, for the record of the harness
HarnessBodies ==
    { [industry_weight |-> w[1], tech_weight |-> w[2],
       email |-> NoneStr, send_hour_local |-> NoneInt]
      : w \in WeightInputs \cup
              { <<Q(-1, 1), Q(2, 1)>>, <<Q(19, 1), Q(1, 1)>>, <<Q(0, 1), Q(3, 1)>> } }

\* bias maps of the record handed in: empty, near and at the bounds, and
\* outside them
StartBiases ==
    { [source_bias |-> EmptyDict, topic_bias |-> EmptyDict],
      [source_bias |-> (KeyA :> Q(9, 20)), topic_bias |-> (KeyTech :> Q(-1, 2))],
      [source_bias |-> (KeyA :> Q(1, 2) @@ KeyB :> Q(-2, 5)),
       topic_bias |-> EmptyDict],
      [source_bias |-> (KeyA :> Q(-1, 2) @@ KeyB :> Q(7, 10)),
       topic_bias |-> (KeyTech :> Q(-3, 5))] }

\* a fresh record with these bias maps
StartPrefs ==
    { [UserPrefs EXCEPT !.source_bias = b.source_bias,
                        !.topic_bias = b.topic_bias] : b \in StartBiases }

Batches(n) == UNION { [1..k -> HarnessEvents] : k \in 0..n }

InitFeedback ==
    /\ InitStore
    /\ InitNoPass
    /\ InitNoCall
    /\ prefs \in StartPrefs
    /\ prefs_before = prefs
    /\ fb_list = <<>>
    /\ called = FALSE
    /\ n_events = 0

\* the assignments of update_prefs, on the record of the harness
edit_prefs ==
    /\ ~called
    /\ \E b \in HarnessBodies :
          /\ prefs' = EditPrefs(prefs, b)
          /\ prefs_before' = prefs'
    /\ UNCHANGED <<fb_list, called, n_events>>
    /\ UNCHANGED sysvars
    /\ UNCHANGED rkvars
    /\ UNCHANGED dcvars

\* prefs = apply_feedback(prefs, fb_list)
call_apply_feedback ==
    /\ \E batch \in Batches(MaxEvents - n_events) :
          /\ prefs' = apply_feedback(prefs, batch, DefaultLr)
          /\ fb_list' = batch
          /\ n_events' = n_events + Len(batch)
    /\ prefs_before' = prefs
    /\ called' = TRUE
    /\ UNCHANGED sysvars
    /\ UNCHANGED rkvars
    /\ UNCHANGED dcvars

NextFeedback == edit_prefs \/ call_apply_feedback

SpecFeedback == InitFeedback /\ [][NextFeedback]_vars

----------------------------------------------------------------------------
(* The classify/score loop and the top-N selection of run_daily as a      *)
(* function of the fetched list, the preference record and the wall       *)
(* clock: passes over one list, the clock advancing between them.         *)

RichShapes ==
    { IndustryItem,
      PlainItem,
      DatedItem,
      \* one keyword of each list, published one hour before the first pass
      Shape("t", {"deal", "gate"}, TRUE, FirstHour - 1, TRUE, KeyA),
      \* title None: classify raises
      Shape(NoneStr, {}, TRUE, NoneInt, TRUE, KeyA),
      \* no published_at key: composite_score raises
      Shape("t", {"qubit"}, FALSE, NoneInt, TRUE, KeyB),
      \* title None and no source key: both raise
      Shape(NoneStr, {}, TRUE, FirstHour - 1, FALSE, KeyA) }

ShortLists == UNION { [1..k -> RichShapes] : k \in 0..MaxShort }
\* lists around TOP_N items long: plain items of one shape, up to MaxOdd of
\* them replaced by the other shape, at any positions
OddSets(n) == { S \in SUBSET (1..n) : Cardinality(S) <= MaxOdd }
LongLists ==
    UNION { { [k \in 1..n |-> IF k \in S THEN pair[1] ELSE pair[2]]
              : S \in OddSets(n) }
            : n \in (TOP_N - 1)..MaxItems,
              pair \in { <<IndustryItem, PlainItem>>, <<PlainItem, IndustryItem>> } }

\* preference records of the passes: the defaults, and a record with biases
ScorePrefs ==
    { UserPrefs,
      [UserPrefs EXCEPT !.source_bias = (KeyA :> Q(1, 4)),
                        !.topic_bias = (KeyTech :> Q(-1, 2))] }

InitRank ==
    /\ InitStore
    /\ InitHarness
    /\ InitNoCall
    /\ \/ \E l \in ShortLists, p \in ScorePrefs :
             raw = WithUrls(l) /\ rk_prefs = p
       \/ \E l \in LongLists : raw = WithUrls(l) /\ rk_prefs = UserPrefs
    /\ clock = FirstHour
    /\ scored = <<>>
    /\ scored_at = FirstHour
    /\ top = <<>>
    /\ prev_top = <<>>
    /\ passes = 0

\* the wall clock reaches the next hour
tick ==
    /\ clock < FirstHour + MaxTicks
    /\ clock' = clock + 1
    /\ UNCHANGED <<raw, rk_prefs, scored, scored_at, top, prev_top, passes>>
    /\ UNCHANGED sysvars
    /\ UNCHANGED fbvars
    /\ UNCHANGED dcvars

\* one pass of the loop over raw and of the top-N selection
rank_pass ==
    /\ passes < 2
    /\ scored' = ScoreLoop(raw, rk_prefs, clock)
    /\ scored_at' = clock
    /\ top' = SelectTop(scored')
    /\ prev_top' = top
    /\ passes' = passes + 1
    /\ UNCHANGED <<raw, rk_prefs, clock>>
    /\ UNCHANGED sysvars
    /\ UNCHANGED fbvars
    /\ UNCHANGED dcvars

NextRank == tick \/ rank_pass

SpecRank == InitRank /\ [][NextRank]_vars

----------------------------------------------------------------------------
(* classify_industry_vs_tech and composite_score called directly, as the  *)
(* tests of tests/test_ranker.py call them.                                *)

\* keywords the texts of the direct calls are made of
CallKws == {"deal", "funding", "launch", "qubit", "paper", "error rate"}

\* title "" and content "": the empty text
EmptyText == [Shape("", {}, TRUE, NoneInt, TRUE, KeyA) EXCEPT !.content = ""]

\* items handed to classify_industry_vs_tech: every set of the keywords in a
\* text, the empty text, and a title of None
ClassifyInputs ==
    { Shape(t, k, TRUE, NoneInt, TRUE, KeyA) :
          t \in {"t", NoneStr}, k \in SUBSET CallKws }
    \cup { EmptyText }

\* cls = classify_industry_vs_tech(it)
call_classify ==
    /\ \E it \in ClassifyInputs :
          cls_call' =
              [called |-> TRUE, item |-> it, raised |-> ClassifyRaises(it),
               cls |-> IF ClassifyRaises(it) THEN ZeroCls
                       ELSE classify_industry_vs_tech(it)]
    /\ UNCHANGED <<score_call, prev_score_call, sum_call>>
    /\ UNCHANGED sysvars
    /\ UNCHANGED fbvars
    /\ UNCHANGED rkvars

\* hours of published_at: none, in the future, the hour of the first call,
\* and three hours before it
CallHours == {NoneInt, FirstHour + 2, FirstHour, FirstHour - 3}

\* items handed to composite_score: as fetched, and as the test builds
\* them, {"title": ..., "category": ...}, without published_at and source
ScoreInputs ==
    { Shape("t", {}, TRUE, h, TRUE, KeyA) : h \in CallHours }
    \cup { Shape("t", {}, TRUE, NoneInt, TRUE, KeyB),
           Shape("t", {}, FALSE, NoneInt, FALSE, KeyA) }

\* the classifications of the test, (0.8, 0.2) and (0.2, 0.8)
CallClasses ==
    { [industry |-> Q(4, 5), tech |-> Q(1, 5)],
      [industry |-> Q(1, 5), tech |-> Q(4, 5)] }

\* UserPrefs(industry_weight=0.8, tech_weight=0.2) of the test, and a
\* record with a bias for source A and for topic tech
CallPrefs ==
    { [UserPrefs EXCEPT !.industry_weight = Q(4, 5), !.tech_weight = Q(1, 5)],
      [UserPrefs EXCEPT !.source_bias = (KeyA :> Q(1, 4)),
                        !.topic_bias = (KeyTech :> Q(-1, 2))] }

\* s = composite_score(item, cls, prefs) or composite_score(item, cls, prefs, now)
call_composite_score ==
    /\ \E it \in ScoreInputs, c \in CallClasses, p \in CallPrefs,
          now \in {NoneInt, FirstHour} :
          LET n == NowOr(now, clock)
          IN  score_call' =
                  [called |-> TRUE, item |-> it, cls |-> c, p |-> p, now |-> now,
                   wall |-> clock, raised |-> ScoreRaises(it),
                   recency_hours |->
                       IF ScoreRaises(it) THEN Zero ELSE RecencyHours(it, n),
                   source_bias |->
                       IF ScoreRaises(it) THEN Zero
                       ELSE DictGet(p.source_bias, it.source, Zero),
                   value |->
                       IF ScoreRaises(it) THEN Zero
                       ELSE composite_score(it, c, p, n)]
    /\ prev_score_call' = score_call
    /\ UNCHANGED <<cls_call, sum_call>>
    /\ UNCHANGED sysvars
    /\ UNCHANGED fbvars
    /\ UNCHANGED rkvars

\* the wall clock reaches the next hour, between two direct calls
call_tick ==
    /\ clock < FirstHour + MaxTicks
    /\ clock' = clock + 1
    /\ UNCHANGED <<raw, rk_prefs, scored, scored_at, top, prev_top, passes>>
    /\ UNCHANGED sysvars
    /\ UNCHANGED fbvars
    /\ UNCHANGED dcvars

\* items handed to summarize_items: with content, without content, and
\* without content and with a title of None
SummarizeInputs ==
    { PlainItem, [PlainItem EXCEPT !.content = ""], UntitledItem }

\* the lists handed to summarize_items
SummarizeLists ==
    UNION { [1..n -> SummarizeInputs] : n \in 0..MaxList }

\* one call of summarize_items(items), with or without an OpenAI client
\* configured (_get_client), the pages and the completions being as env says
call_summarize_items ==
    /\ ~sum_call.called
    /\ \E shapes \in SummarizeLists, client \in BOOLEAN :
          \E env \in [DOMAIN shapes -> [html : HtmlOutcomes, llm : LlmOutcomes]] :
              LET items == WithUrls(shapes)
                  done == summarize_items(items, client, env)
              IN  sum_call' =
                      [called |-> TRUE, items |-> items, client |-> client,
                       env |-> env, raised |-> done.raised, out |-> done.items]
    /\ UNCHANGED <<cls_call, score_call, prev_score_call>>
    /\ UNCHANGED sysvars
    /\ UNCHANGED fbvars
    /\ UNCHANGED rkvars

InitCalls ==
    /\ InitStore
    /\ InitHarness
    /\ InitNoCall
    /\ raw = <<>>
    /\ rk_prefs = UserPrefs
    /\ clock = FirstHour
    /\ scored = <<>>
    /\ scored_at = FirstHour
    /\ top = <<>>
    /\ prev_top = <<>>
    /\ passes = 0

\* calls of classify_industry_vs_tech
NextClassify == call_classify

SpecClassify == InitCalls /\ [][NextClassify]_vars

\* calls of composite_score, the clock advancing between them
NextScore == call_composite_score \/ call_tick

SpecScore == InitCalls /\ [][NextScore]_vars

\* calls of summarize_items
NextSummarize == call_summarize_items

SpecSummarize == InitCalls /\ [][NextSummarize]_vars

----------------------------------------------------------------------------
(* Vocabulary of the properties *)

WeightSum(p) == Add(p.industry_weight, p.tech_weight)
InUnit(x) == Leq(Zero, x) /\ Leq(x, One)
InBiasRange(x) == Leq(Neg(Half), x) /\ Leq(x, Half)
BiasesInRange(p) ==
    /\ \A k \in DOMAIN p.source_bias : InBiasRange(p.source_bias[k])
    /\ \A k \in DOMAIN p.topic_bias : InBiasRange(p.topic_bias[k])
WeightAspects == {<<"industry">>, <<"tech">>}
AllEvents(fbs, P(_)) == \A i \in 1..Len(fbs) : P(fbs[i])
IsWeightEvent(fb) == fb.aspect \in WeightAspects

----------------------------------------------------------------------------
(* C1.  Handed a record whose weights sum to 1, apply_feedback on a batch *)
(* of events that all have aspect "industry" or "tech" (any signal)       *)
(* returns a record whose weights sum to 1; and when the batch holds at   *)
(* least one event both weights lie in [0,1].  Successive calls of the    *)
(* harness are the batch splits.                                           *)

C2_BiasesBounded == called => BiasesInRange(prefs)

\* the record handed in held an out-of-range bias under a key that no
\* event of the (non-empty) batch names
C2_Witness ==
    /\ called
    /\ fb_list # <<>>
    /\ KeyB \in DOMAIN prefs_before.source_bias
    /\ ~InBiasRange(prefs_before.source_bias[KeyB])
    /\ \E i \in 1..Len(fb_list) : fb_list[i].aspect = <<"source", ":", "A">>

(* C3 (as claimed).  In every reachable state every stored preference     *)
(* record has industry_weight + tech_weight = 1, whatever numbers         *)
(* POST /prefs and POST /feedback were given.                              *)

C3_StoredWeightsSumToOne ==
    \A i \in 1..Len(userprefs) : WeightSum(userprefs[i]) = One

----------------------------------------------------------------------------
(* The claims below speak of the events of a batch one by one.            *)

\* the record after the first i events of the last batch
After(i) == ApplyEvents(prefs_before, SubSeq(fb_list, 1, i), DefaultLr)

IsPositive(fb) == fb.signal \in {"+1", "more"}
IsNegative(fb) == fb.signal \in {"-1", "less"}
IsIndustryUp(fb) == fb.aspect = <<"industry">> /\ IsPositive(fb)
IsIndustryDown(fb) == fb.aspect = <<"industry">> /\ IsNegative(fb)

\* clamp(x, lo, hi), written out
Clamp(x, lo, hi) == IF Less(x, lo) THEN lo ELSE IF Less(hi, x) THEN hi ELSE x

\* k * q for an integer k
Times(k, q) == Q(k * q.n, q.d)

NonDecreasingPath ==
    /\ \A i \in 1..Len(fb_list) :
          /\ Leq(After(i - 1).industry_weight, After(i).industry_weight)
          /\ After(i - 1).industry_weight = One => After(i).industry_weight = One
    /\ Leq(prefs_before.industry_weight, prefs.industry_weight)

NonIncreasingPath ==
    /\ \A i \in 1..Len(fb_list) :
          /\ Leq(After(i).industry_weight, After(i - 1).industry_weight)
          /\ After(i - 1).industry_weight = Zero => After(i).industry_weight = Zero
    /\ Leq(prefs.industry_weight, prefs_before.industry_weight)

(* C4 (as claimed).  Along a batch whose events all have aspect           *)
(* "industry" and a signal in {"+1","more"}, industry_weight never        *)
(* decreases from before an event to after it and stays at 1 once there;  *)
(* along a batch of "industry" events with signals in {"-1","less"} it    *)
(* never increases and stays at 0 once there.                              *)

C4_MonotoneAsClaimed ==
    called =>
        /\ AllEvents(fb_list, IsIndustryUp) => NonDecreasingPath
        /\ AllEvents(fb_list, IsIndustryDown) => NonIncreasingPath

(* C4 (amended).  The same, for a record handed in with industry_weight   *)
(* in [0,1].                                                               *)

C4_MonotoneFromUnit ==
    (called /\ InUnit(prefs_before.industry_weight)) =>
        /\ AllEvents(fb_list, IsIndustryUp) => NonDecreasingPath
        /\ AllEvents(fb_list, IsIndustryDown) => NonIncreasingPath

\* two positive "industry" events took the weight from below 1 to 1
C4_Witness ==
    /\ called
    /\ Len(fb_list) = 2
    /\ AllEvents(fb_list, IsIndustryUp)
    /\ InUnit(prefs_before.industry_weight)
    /\ prefs_before.industry_weight # One
    /\ prefs.industry_weight = One

\* the rule for one event on a weight, for a call with a single event
SingleEventRule ==
    (Len(fb_list) = 1 /\ IsWeightEvent(fb_list[1])
       /\ (IsPositive(fb_list[1]) \/ IsNegative(fb_list[1]))) =>
        LET fb == fb_list[1]
            delta == IF IsPositive(fb) THEN DefaultLr ELSE Neg(DefaultLr)
        IN  IF fb.aspect = <<"industry">>
            THEN /\ prefs.industry_weight =
                        Clamp(Add(prefs_before.industry_weight, delta), Zero, One)
                 /\ prefs.tech_weight = Sub(One, prefs.industry_weight)
            ELSE /\ prefs.tech_weight =
                        Clamp(Add(prefs_before.tech_weight, delta), Zero, One)
                 /\ prefs.industry_weight = Sub(One, prefs.tech_weight)

\* k >= 1 positive "industry" events from w give min(1, w + k*lr) and its
\* complement
ClosedForm ==
    (fb_list # <<>> /\ AllEvents(fb_list, IsIndustryUp)) =>
        /\ prefs.industry_weight =
              PyMin(One, Add(prefs_before.industry_weight,
                             Times(Len(fb_list), DefaultLr)))
        /\ prefs.tech_weight = Sub(One, prefs.industry_weight)

\* 10 {"+1","industry"} events on the default record
TenIndustryUp ==
    apply_feedback(UserPrefs, [i \in 1..10 |-> Ev("+1", <<"industry">>)], DefaultLr)

TenIndustryUpSaturates ==
    TenIndustryUp.industry_weight = One /\ TenIndustryUp.tech_weight = Zero

(* C5 (as claimed).  An "industry" (resp. "tech") event sets the named    *)
(* weight to clamp(old + delta, 0, 1), delta = +lr for "+1"/"more" and    *)
(* -lr for "-1"/"less", and the other weight to 1 minus it; k positive    *)
(* "industry" events from any weight w give min(1, w + k*lr) and its      *)
(* complement; 10 of them from 0.7 give 1.0 and 0.0.                      *)

C5_RuleAsClaimed ==
    called => SingleEventRule /\ ClosedForm /\ TenIndustryUpSaturates

(* C5 (amended).  The same, the closed form min(1, w + k*lr) being for a  *)
(* weight w in [0,1].                                                      *)

C5_RuleFromUnit ==
    called =>
        /\ SingleEventRule
        /\ InUnit(prefs_before.industry_weight) => ClosedForm
        /\ TenIndustryUpSaturates

\* two positive "industry" events from 0.95: 1.05 clamped to 1, tech 0
C5_Witness ==
    /\ called
    /\ Len(fb_list) = 2
    /\ AllEvents(fb_list, IsIndustryUp)
    /\ prefs_before.industry_weight = Q(19, 20)
    /\ prefs.industry_weight = One
    /\ prefs.tech_weight = Zero

----------------------------------------------------------------------------
(* Counting the events of the last batch that name one bias key *)

\* the events of the last batch with this aspect
Named(asp) == { i \in 1..Len(fb_list) : fb_list[i].aspect = asp }
Ups(asp) == Cardinality({ i \in Named(asp) : IsPositive(fb_list[i]) })
Downs(asp) == Cardinality({ i \in Named(asp) : IsNegative(fb_list[i]) })
OnlyKnownSignals(asp) ==
    \A i \in Named(asp) : IsPositive(fb_list[i]) \/ IsNegative(fb_list[i])

\* clamp(b + (p - m)*lr, -0.5, 0.5) for the events naming `asp`
NetBias(b, asp) ==
    Clamp(Add(b, Times(Ups(asp) - Downs(asp), DefaultLr)), Neg(Half), Half)

\* the bias under key k is the clamped net sum, for a map before and after
NetRule(before, after, tag) ==
    \A k \in DOMAIN after :
        LET asp == <<tag, ":">> \o k
            b == IF k \in DOMAIN before THEN before[k] ELSE Zero
        IN  (OnlyKnownSignals(asp) /\ InBiasRange(b)) => after[k] = NetBias(b, asp)

ArsTechnica == <<"ArsTechnica">>

\* 20 "+1" events for one source on the default record, in one batch
TwentyUp ==
    apply_feedback(UserPrefs,
        [i \in 1..20 |-> Ev("+1", <<"source", ":", "ArsTechnica">>)], DefaultLr)

\* 12 "+1" events followed by 4 "-1" events for one source, in one batch
TwelveUpFourDown ==
    apply_feedback(UserPrefs,
        [i \in 1..16 |-> Ev(IF i <= 12 THEN "+1" ELSE "-1",
                            <<"source", ":", "ArsTechnica">>)], DefaultLr)

(* C6.  The bias clamp is applied once, after all events of the batch:    *)
(* for a source (or topic) whose bias starts at b in [-0.5, 0.5] (0 when  *)
(* the key is absent) and a batch holding p "+1"/"more" events and m      *)
(* "-1"/"less" events for that name, in any order, the returned bias is   *)
(* clamp(b + (p - m)*lr, -0.5, 0.5); 20 "+1" events from 0 give 0.5, and  *)
(* 12 "+1" followed by 4 "-1" in one batch give 0.4.                      *)

C6_ClampAfterBatch ==
    called =>
        /\ NetRule(prefs_before.source_bias, prefs.source_bias, "source")
        /\ NetRule(prefs_before.topic_bias, prefs.topic_bias, "topic")
        /\ TwentyUp.source_bias[ArsTechnica] = Half
        /\ TwelveUpFourDown.source_bias[ArsTechnica] = Q(2, 5)

\* from a bias at the upper bound, "+1" then "-1" in one batch: still 0.5,
\* where a clamp after each event would give 0.45
C6_Witness ==
    /\ called
    /\ KeyA \in DOMAIN prefs_before.source_bias
    /\ prefs_before.source_bias[KeyA] = Half
    /\ Len(fb_list) = 2
    /\ fb_list[1] = Ev("+1", <<"source", ":", "A">>)
    /\ fb_list[2] = Ev("-1", <<"source", ":", "A">>)
    /\ prefs.source_bias[KeyA] = Half

(* C7 (as claimed).  A batch of events whose signal is none of "+1",      *)
(* "-1", "more", "less" leaves a record that satisfies the weight and     *)
(* bias invariants unchanged, for every aspect form.                       *)

C7_UnknownSignalIsNoOp ==
    (/\ called
     /\ AllEvents(fb_list, LAMBDA fb : ~IsPositive(fb) /\ ~IsNegative(fb))
     /\ WeightSum(prefs_before) = One
     /\ InUnit(prefs_before.industry_weight)
     /\ InUnit(prefs_before.tech_weight)
     /\ BiasesInRange(prefs_before))
    => prefs = prefs_before

\* an aspect that is neither a weight nor "source:..." nor "topic:..."
Unrecognised(fb) ==
    /\ fb.aspect \notin WeightAspects
    /\ ~(/\ Len(fb.aspect) >= 2
         /\ fb.aspect[1] \in {"source", "topic"}
         /\ fb.aspect[2] = ":")

\* same keys, and every in-range value as before
BiasKept(before, after) ==
    /\ DOMAIN after = DOMAIN before
    /\ \A k \in DOMAIN before : InBiasRange(before[k]) => after[k] = before[k]

(* C8.  A batch of events whose aspect is neither "industry", "tech",     *)
(* "source:..." nor "topic:..." is ignored: no bias key is created and    *)
(* the weights and every in-range bias value are as before.                *)

C8_UnrecognisedAspectIgnored ==
    (called /\ AllEvents(fb_list, Unrecognised)) =>
        /\ prefs.industry_weight = prefs_before.industry_weight
        /\ prefs.tech_weight = prefs_before.tech_weight
        /\ BiasKept(prefs_before.source_bias, prefs.source_bias)
        /\ BiasKept(prefs_before.topic_bias, prefs.topic_bias)

\* two unrecognised aspects, one of them starting with the token "industry",
\* applied to a record that holds biases
C8_Witness ==
    /\ called
    /\ Len(fb_list) = 2
    /\ AllEvents(fb_list, Unrecognised)
    /\ fb_list[1].aspect = <<"industry", ":", "x">>
    /\ fb_list[2].aspect = <<"sources">>
    /\ prefs_before.source_bias # EmptyDict

(* C9 (as claimed).  A request that finds no preference record creates    *)
(* it: the request succeeds and a record exists afterwards; in particular *)
(* POST /feedback on an empty table.                                       *)

C9_AbsentRecordIsCreated ==
    resp.absent => resp.status = 200 /\ userprefs # <<>>

(* C10 (as claimed).  In every reachable state, under any interleaving of *)
(* run_daily, POST /prefs and POST /feedback, the store holds at most one *)
(* UserPrefs record.                                                       *)

C10_AtMostOneUserPrefs == Len(userprefs) <= 1

----------------------------------------------------------------------------
(* Vocabulary of the store properties *)

IssuesOf(day) == { i \in DOMAIN dailyissue : dailyissue[i].date = day }
Days == 1..MaxDays
RunDailyDone == resp.handler \in {"run_daily", "get_today"} /\ resp.fetch # ""
IsPostFeedbackStep ==
    \E r \in Slots :
        post_feedback_add(r) \/ post_feedback_select(r) \/ post_feedback_apply(r)
IsBiasAspect(asp) ==
    StartsWith(asp, <<"source", ":">>) \/ StartsWith(asp, <<"topic", ":">>)
\* the bias the event of body b names, in the record p
NamedBias(p, b) ==
    IF StartsWith(b.aspect, <<"source", ":">>)
    THEN DictGet(p.source_bias, AfterColon(b.aspect), Zero)
    ELSE DictGet(p.topic_bias, AfterColon(b.aspect), Zero)

----------------------------------------------------------------------------
(* C11 (as claimed).  Whatever run_daily invocations have run on a        *)
(* calendar date, the store holds at most one DailyIssue for that date.   *)

C11_OneIssuePerDate == \A day \in Days : Cardinality(IssuesOf(day)) <= 1

----------------------------------------------------------------------------
(* C17.  When fetch_all returns an empty list or raises, run_daily        *)
(* completes without raising, returns an issue for its date whose items   *)
(* are empty, and that issue is stored.                                    *)

C17_EmptyFetchGivesEmptyIssue ==
    (RunDailyDone /\ resp.fetch \in {"empty", "raised"}) =>
        /\ resp.status = 200
        /\ resp.issue.date \in Days
        /\ resp.issue.items = <<>>
        /\ \E i \in IssuesOf(resp.issue.date) :
              dailyissue[i].items_json = resp.issue

\* a run whose fetch raised has answered
C17_Witness ==
    /\ RunDailyDone
    /\ resp.fetch = "raised"
    /\ resp.status = 200
    /\ dailyissue # <<>>

----------------------------------------------------------------------------
(* C19.  No step of a POST /feedback request changes the DailyIssue or    *)
(* the Article table: stored issues (order, scores, categories) and       *)
(* stored articles stay as they are.                                       *)

C19_FeedbackLeavesIssues ==
    [][IsPostFeedbackStep => UNCHANGED <<dailyissue, article>>]_vars

\* a feedback request has been answered while an issue with items is stored
C19_Witness ==
    /\ resp.handler = "post_feedback"
    /\ resp.status = 200
    /\ \E i \in DOMAIN dailyissue : dailyissue[i].items_json.items # <<>>
    /\ article # <<>>

----------------------------------------------------------------------------
(* C20 (as claimed).  When a POST /feedback with a recognised signal and  *)
(* aspect "source:S" or "topic:T" is answered, the persisted preference   *)
(* record holds the bias that apply_feedback computed for S or T.         *)

C20_BiasWrittenBack ==
    [][\A r \in Slots :
          (/\ post_feedback_apply(r)
           /\ loaded[r].id # 0
           /\ IsBiasAspect(body[r].aspect)
           /\ body[r].signal \in PositiveSignals \cup NegativeSignals)
          => NamedBias(userprefs'[loaded[r].id], body[r])
                = NamedBias(apply_feedback(loaded[r].row, <<body[r]>>, DefaultLr),
                            body[r])]_vars

----------------------------------------------------------------------------
(* Vocabulary of the ranking properties *)

Urls(xs) == { xs[i].url : i \in DOMAIN xs }
\* positions of the scored list whose item was not selected
LeftOut == { k \in DOMAIN scored : scored[k].url \notin Urls(top) }
IndustryCount(it) == Cardinality(it.kws \cap industry_kws)
TechCount(it) == Cardinality(it.kws \cap tech_kws)
Fails(it) == ClassifyRaises(it) \/ ScoreRaises(it)

----------------------------------------------------------------------------
(* C12.  For a scored list of n items the ranking step returns exactly    *)
(* min(n, TOP_N) of them, each once, in non-increasing order of score,    *)
(* and no item left out has a score strictly greater than a selected one. *)

C12_TopNByScore ==
    passes >= 1 =>
        /\ Len(top) = IF Len(scored) < TOP_N THEN Len(scored) ELSE TOP_N
        /\ \A i \in DOMAIN top : \E k \in DOMAIN scored : top[i] = scored[k]
        /\ \A i, j \in DOMAIN top :
              i < j => /\ top[i].url # top[j].url
                       /\ ~LessThan(top[i].score, top[j].score)
        /\ \A k \in LeftOut, i \in DOMAIN top :
              ~LessThan(top[i].score, scored[k].score)

\* more than TOP_N items, two different scores among the selected ones
C12_Witness ==
    /\ passes >= 1
    /\ Len(scored) > TOP_N
    /\ Len(top) = TOP_N
    /\ \E i, j \in DOMAIN top : LessThan(top[j].score, top[i].score)

----------------------------------------------------------------------------
(* C13.  The descending sort is stable: selected items of equal score     *)
(* appear in input order, and when the cut falls inside a group of equal  *)
(* scores the items kept are the ones earlier in the input.  (The url of  *)
(* an item is its position in the input.)                                  *)

C13_StableSort ==
    passes >= 1 =>
        /\ \A i, j \in DOMAIN top :
              (i < j /\ top[i].score = top[j].score) => top[i].url < top[j].url
        /\ \A k \in LeftOut, i \in DOMAIN top :
              top[i].score = scored[k].score => top[i].url < scored[k].url

\* the cut falls inside a group of equal scores that follows a higher score
\* placed later in the input
C13_Witness ==
    /\ passes >= 1
    /\ \E k \in LeftOut, i \in DOMAIN top : top[i].score = scored[k].score
    /\ \E i, j \in DOMAIN top :
          i < j /\ top[i].url > top[j].url
    /\ \E i, j \in DOMAIN top : i < j /\ top[i].score = top[j].score

----------------------------------------------------------------------------
(* C14.  Every item leaving the classify/score loop has category          *)
(* "industry" when classification.industry >= classification.tech and     *)
(* "tech" otherwise; an item with equal affinities (equal keyword counts,  *)
(* no keyword at all, or a failed classification) is "industry".           *)

C14_CategoryByAffinity ==
    passes >= 1 =>
        \A k \in DOMAIN scored :
            LET cls == ClassifyOrZero(raw[k])
                tie == \/ ClassifyRaises(raw[k])
                       \/ IndustryCount(raw[k]) = TechCount(raw[k])
            IN  /\ scored[k].category \in {"industry", "tech"}
                /\ scored[k].category = "industry"
                      <=> ~LessThan(cls.industry, cls.tech)
                /\ cls.industry = cls.tech => scored[k].category = "industry"
                /\ tie => scored[k].category = "industry"
                /\ (~tie /\ IndustryCount(raw[k]) < TechCount(raw[k]))
                      => scored[k].category = "tech"

\* an item with one keyword of each list next to an item that leans to tech
C14_Witness ==
    /\ passes >= 1
    /\ \E k \in DOMAIN scored :
          /\ ~ClassifyRaises(raw[k])
          /\ IndustryCount(raw[k]) = TechCount(raw[k])
          /\ IndustryCount(raw[k]) > 0
          /\ scored[k].category = "industry"
    /\ \E k \in DOMAIN scored : scored[k].category = "tech"

----------------------------------------------------------------------------
(* C15 (as claimed).  An item whose classification fails gets score 0,    *)
(* and an item whose scoring fails gets score 0, whatever its source bias *)
(* and publication time.                                                   *)

C15_FailedItemScoresZero ==
    passes >= 1 =>
        \A k \in DOMAIN scored :
            /\ ClassifyRaises(raw[k]) => scored[k].score = Zero
            /\ ScoreRaises(raw[k]) => scored[k].score = Zero

----------------------------------------------------------------------------
(* C16.  Per-item failures are isolated: whatever items classify or score *)
(* raises on, the scored list holds each input item once, at its place    *)
(* and with its fields, and the category and score of an item on which    *)
(* nothing raises are those of its own classification and composite       *)
(* score; the loop always runs to its end.                                 *)

C16_FailuresIsolated ==
    passes >= 1 =>
        /\ Len(scored) = Len(raw)
        /\ \A k \in DOMAIN scored :
              /\ \A f \in DOMAIN raw[k] : scored[k][f] = raw[k][f]
              /\ ~Fails(raw[k]) =>
                    LET cls == classify_industry_vs_tech(raw[k])
                    IN  /\ scored[k].category = Category(cls)
                        /\ scored[k].score =
                              composite_score(raw[k], cls, rk_prefs, scored_at)

\* an item on which nothing raises, after an item on which something does
C16_Witness ==
    /\ passes >= 1
    /\ \E j, k \in DOMAIN raw :
          j < k /\ Fails(raw[j]) /\ ~Fails(raw[k]) /\ scored[k].score # Zero

----------------------------------------------------------------------------
(* C18 (as claimed).  Two ranking passes over the same items with the     *)
(* same preferences select the same items in the same order with the same *)
(* scores, whenever the passes run.                                        *)

C18_SamePassSameResult == passes = 2 => top = prev_top


----------------------------------------------------------------------------
(* C21.  For every item whose title and content are text (the empty text  *)
(* included) classify_industry_vs_tech returns industry and tech values   *)
(* in [0,1]; they are both 0 when no keyword of either list occurs, and   *)
(* when a keyword occurs their sum is below 1, by less than 1e-6.          *)

C21_ClassifyInUnit ==
    (cls_call.called /\ cls_call.item.title # NoneStr) =>
        LET cls == cls_call.cls
            total == Add(cls.industry, cls.tech)
            hits == cls_call.item.kws \cap (industry_kws \cup tech_kws)
        IN  /\ ~cls_call.raised
            /\ InUnit(cls.industry) /\ InUnit(cls.tech)
            /\ hits = {} => cls.industry = Zero /\ cls.tech = Zero
            /\ hits # {} =>
                   /\ LessThan(total, One)
                   /\ LessThan(Sub(One, total), Epsilon)

\* a text with two industry keywords and one tech keyword has been classified
C21_Witness ==
    /\ cls_call.called
    /\ ~cls_call.raised
    /\ cls_call.item.kws = {"deal", "funding", "qubit"}
    /\ LessThan(cls_call.cls.tech, cls_call.cls.industry)

----------------------------------------------------------------------------
(* C22.  For a preference record with industry_weight > tech_weight and   *)
(* no bias entries, and two items that differ only in having mirrored     *)
(* classifications (a, b) and (b, a) with a > b, composite_score returns  *)
(* a value for both and the value for (a, b) is strictly greater, also    *)
(* for items without a published_at or source key.                         *)

\* the last two calls differ in the classification only, which is mirrored
MirroredCalls ==
    /\ score_call.called /\ prev_score_call.called
    /\ score_call.item = prev_score_call.item
    /\ score_call.p = prev_score_call.p
    /\ score_call.now = prev_score_call.now
    /\ score_call.wall = prev_score_call.wall
    /\ score_call.cls.industry = prev_score_call.cls.tech
    /\ score_call.cls.tech = prev_score_call.cls.industry
    /\ LessThan(score_call.cls.tech, score_call.cls.industry)

C22_ScoreRespectsWeights ==
    (/\ MirroredCalls
     /\ LessThan(score_call.p.tech_weight, score_call.p.industry_weight)
     /\ score_call.p.source_bias = EmptyDict
     /\ score_call.p.topic_bias = EmptyDict)
    => /\ ~score_call.raised
       /\ ~prev_score_call.raised
       /\ LessThan(prev_score_call.value, score_call.value)

----------------------------------------------------------------------------
(* C23.  In composite_score the age is floored at one hour: recency_hours *)
(* = 1/max(1, age) lies in (0,1] and does not grow as the age grows; an   *)
(* item whose published_at is None, in the future, or less than an hour   *)
(* before now gets the maximal recency_hours 1 and the same recency       *)
(* contribution to the score; a source that source_bias does not hold     *)
(* contributes exactly 0.                                                  *)

\* now of a call, and the age of its item in hours: the time from
\* published_at to now, 0 for an item without publication time
NowOf(c) == IF c.now = NoneInt THEN c.wall ELSE c.now
AgeOf(c) ==
    IF c.item.published_at = NoneInt THEN 0 ELSE NowOf(c) - c.item.published_at
Returned(c) == c.called /\ ~c.raised

C23_AgeFlooredAtOneHour ==
    /\ Returned(score_call) =>
          /\ LessThan(Zero, score_call.recency_hours)
          /\ ~LessThan(One, score_call.recency_hours)
          /\ AgeOf(score_call) < 1 => score_call.recency_hours = One
          /\ score_call.item.source \notin DOMAIN score_call.p.source_bias
                 => score_call.source_bias = Zero
    /\ (Returned(score_call) /\ Returned(prev_score_call)) =>
          /\ AgeOf(prev_score_call) <= AgeOf(score_call)
                 => ~LessThan(prev_score_call.recency_hours,
                              score_call.recency_hours)
          /\ (/\ AgeOf(prev_score_call) < 1
              /\ AgeOf(score_call) < 1
              /\ score_call.cls = prev_score_call.cls
              /\ score_call.p = prev_score_call.p
              /\ score_call.item.source = prev_score_call.item.source)
             => score_call.value = prev_score_call.value

\* an item published in the future has been scored after an item three
\* hours old, with the same classification and preferences, and an item
\* whose source has no bias entry has been scored
C23_Witness ==
    /\ Returned(score_call) /\ Returned(prev_score_call)
    /\ score_call.item.published_at > NowOf(score_call)
    /\ AgeOf(prev_score_call) >= 3
    /\ LessThan(prev_score_call.recency_hours, score_call.recency_hours)
    /\ LessThan(prev_score_call.value, score_call.value)
    /\ score_call.cls = prev_score_call.cls
    /\ score_call.p = prev_score_call.p
    /\ score_call.item.source \notin DOMAIN score_call.p.source_bias

----------------------------------------------------------------------------
(* C29.  On a record whose weights lie in [0,1] and sum to 1, a positive  *)
(* event on "industry" gives the same weights as a negative event on      *)
(* "tech", and a negative event on "industry" the same weights as a       *)
(* positive event on "tech", at the bounds 0 and 1 too.                    *)

\* the events that push the weights the same way as fb, on the other aspect
Counterparts(fb) ==
    { Ev(sig, IF fb.aspect = <<"industry">> THEN <<"tech">> ELSE <<"industry">>) :
          sig \in IF IsPositive(fb) THEN NegativeSignals ELSE PositiveSignals }

SameWeights(a, b) ==
    /\ a.industry_weight = b.industry_weight
    /\ a.tech_weight = b.tech_weight

\* one weight event with a recognised signal was applied to a record whose
\* weights are in [0,1] and sum to 1
OneWeightEventFromUnit ==
    /\ called
    /\ Len(fb_list) = 1
    /\ IsWeightEvent(fb_list[1])
    /\ IsPositive(fb_list[1]) \/ IsNegative(fb_list[1])
    /\ InUnit(prefs_before.industry_weight)
    /\ InUnit(prefs_before.tech_weight)
    /\ WeightSum(prefs_before) = One

----------------------------------------------------------------------------
(* C30.  apply_feedback changes only what the event names.  On a record   *)
(* whose biases are within [-0.5, 0.5]: an event "source:S" changes       *)
(* source_bias[S] only, an event "topic:T" changes topic_bias[T] only, an *)
(* event "industry" or "tech" changes the two weights only.  email and    *)
(* send_hour_local are never changed, whatever the batch and the record.  *)

\* d and e hold the same value under every key but k
SameBut(d, e, k) ==
    /\ (DOMAIN e) \ {k} = (DOMAIN d) \ {k}
    /\ \A x \in (DOMAIN d) \ {k} : e[x] = d[x]

IsSourceEvent(fb) == StartsWith(fb.aspect, <<"source", ":">>)
IsTopicEvent(fb) == StartsWith(fb.aspect, <<"topic", ":">>)

C30_OnlyTheNamedChanges ==
    /\ called =>
          /\ prefs.email = prefs_before.email
          /\ prefs.send_hour_local = prefs_before.send_hour_local
    /\ (called /\ Len(fb_list) = 1 /\ BiasesInRange(prefs_before)) =>
          LET fb == fb_list[1]
          IN  /\ IsWeightEvent(fb) =>
                     /\ prefs.source_bias = prefs_before.source_bias
                     /\ prefs.topic_bias = prefs_before.topic_bias
              /\ IsSourceEvent(fb) =>
                     /\ SameWeights(prefs, prefs_before)
                     /\ prefs.topic_bias = prefs_before.topic_bias
                     /\ SameBut(prefs_before.source_bias, prefs.source_bias,
                                AfterColon(fb.aspect))
              /\ IsTopicEvent(fb) =>
                     /\ SameWeights(prefs, prefs_before)
                     /\ prefs.source_bias = prefs_before.source_bias
                     /\ SameBut(prefs_before.topic_bias, prefs.topic_bias,
                                AfterColon(fb.aspect))

\* an event "source:A" was applied to a record that holds in-range biases
\* for the sources A and B and has changed the bias of A
C30_Witness ==
    /\ called /\ Len(fb_list) = 1 /\ BiasesInRange(prefs_before)
    /\ fb_list[1].aspect = <<"source", ":", "A">>
    /\ KeyB \in DOMAIN prefs_before.source_bias
    /\ prefs.source_bias[KeyA] # prefs_before.source_bias[KeyA]
    /\ prefs.source_bias[KeyB] = prefs_before.source_bias[KeyB]

\* C25: a call of summarize_items does not raise and leaves the same items
\* in the same order and count, each with a "summary" field, with or
\* without an OpenAI client and with or without content.
C25_EveryItemSummarized ==
    sum_call.called =>
        /\ ~sum_call.raised
        /\ Len(sum_call.out) = Len(sum_call.items)
        /\ \A k \in DOMAIN sum_call.items :
               /\ sum_call.out[k].url = sum_call.items[k].url
               /\ "summary" \in DOMAIN sum_call.out[k]

\* an item of an issue as the issue snapshot describes it
IsIssueItem(it) ==
    /\ {"category", "score", "id"} \subseteq DOMAIN it
    /\ "content" \notin DOMAIN it

\* C24: every item of every stored issue and of the issue a run of
\* run_daily returned has a category, a score and the id of its Article
\* row, and no content, also when storing an article failed.
C24_IssueItemsCarryIdentity ==
    /\ \A i \in DOMAIN dailyissue :
           \A k \in DOMAIN dailyissue[i].items_json.items :
               IsIssueItem(dailyissue[i].items_json.items[k])
    /\ resp.issue # NoIssue =>
           \A k \in DOMAIN resp.issue.items : IsIssueItem(resp.issue.items[k])

\* the urls of the items of an issue, in order
UrlsOf(issue) == [k \in DOMAIN issue.items |-> issue.items[k].url]

\* C27: a run of run_daily that has its preference record goes on to the
\* end whatever fails in the summarize, article, issue and PDF stages, and
\* returns an issue of its date with the selected top items; a run raises
\* only while loading or creating the preference record, with the database
\* out of order.
C27_HandledStagesDoNotAbort ==
    [][\A r \in Slots :
          /\ (pc[r] = "rd_issue" /\ pc'[r] = "idle") =>
                 /\ ~resp'.raised
                 /\ resp'.issue.date = work[r].date
                 /\ UrlsOf(resp'.issue) = work[r].ranked
          /\ (pc[r] \in {"rd_create", "rd_articles"} /\ loaded[r].id # 0) =>
                 pc'[r] \in {pc[r], "rd_articles", "rd_issue"}
          /\ (resp'.raised /\ pc'[r] = "idle"
                  /\ (pc[r] # "idle" \/ (pc' = pc /\ started' # started))) =>
                 /\ "db" \in outage
                 /\ pc[r] \in {"idle", "rd_select", "rd_create"}
                 /\ pc[r] = "rd_create" => loaded[r].id = 0
      ]_vars

\* a run returned its two selected items although summarizing, storing an
\* article, storing the issue and saving the PDF all failed
C27_Witness ==
    /\ resp.handler = "run_daily"
    /\ ~resp.raised
    /\ resp.failed = {"summary", "article", "issue", "pdf"}
    /\ Len(resp.issue.items) = 2
    /\ UrlsOf(resp.issue) = resp.ranked

\* the issue of the row stored last for a date
LastStored(table, day) ==
    LET hits == { i \in DOMAIN table : table[i].date = day }
    IN  table[CHOOSE i \in hits : \A j \in hits : j <= i].items_json

\* GET /summary/today answering from the store: the one step that takes a
\* request and leaves every request where it is
ReadsStored == pc' = pc /\ started' = started + 1

\* C28: a read of today's issue without regeneration returns the issue
\* stored by the most recent run of the date and adds no DailyIssue and no
\* Article row.
C28_ReadReturnsLatestRun ==
    [][ReadsStored =>
           /\ resp'.issue = LastStored(dailyissue, today)
           /\ UNCHANGED <<dailyissue, article>>
      ]_vars

\* the table after a request working on the record as it is now
OnCurrent(new(_)) ==
    CommitPrefs(userprefs, SelectFirst(userprefs), new(SelectFirst(userprefs).row))

\* C26: the commit of a POST /feedback that found the preference record
\* leaves the table as applying the feedback to the record as it is at the
\* commit leaves it: whatever a concurrent POST /feedback or POST /prefs
\* has committed since the record was read is kept, so that the final
\* record is the requests applied one after the other.
C26_NoLostUpdate ==
    [][\A r \in Slots :
          (pc[r] = "fb_apply" /\ pc'[r] = "idle" /\ loaded[r].id # 0) =>
              LET fb(row) == apply_feedback(row, <<body[r]>>, DefaultLr)
              IN  userprefs' = OnCurrent(fb)
      ]_vars

====
